---- MODULE Spec2Model ----
(***************************************************************************)
(* Model of util/TimeConverter.py: TimeConverter.local_to_utc and          *)
(* TimeConverter.utc_to_local, together with the pytz and pandas calls     *)
(* they are built from (pytz.timezone, tzinfo.localize(is_dst=None),       *)
(* datetime.astimezone, pd.date_range(freq='h')).                          *)
(*                                                                         *)
(* Time is counted in minutes from 00:00 of day 0.  A naive moment is an   *)
(* integer; a timezone-aware moment is a record holding the UTC instant    *)
(* and the tzinfo (utcoffset, dst) attached to it.  The zone database is   *)
(* a table of zones shaped like real tz entries, with the spring and the   *)
(* autumn transition of each zone placed on day 2 and day 5.               *)
(***************************************************************************)
EXTENDS Integers, Sequences, FiniteSets

\* one call of the converter: the caller's position, the operation called,
\* its two arguments, its outcome and the outcome of the conversion back
VARIABLES pc, op, timezone, time_in, result, back

\* the time argument when the caller passes it as a string
VARIABLES time_str

\* calls made by several threads on one converter: each thread's call frame
\* (its position and its local variables), the attributes of the converter
\* object, pytz's cache of loaded zones, the results returned so far and the
\* number of calls started
VARIABLES frames, self_attrs, tz_cache, call_log, calls_made

\* resetProgress.py: the files under the data root, the arguments of
\* reset_progress, its position, the files it collected, the answer typed at
\* its prompt, its return value, and the files present when it was called
VARIABLES fs_files, rp_args, rp_pc, files_to_delete, rp_answer, rp_ret, fs_before

\* cleanData.py: the regular files under the base directory with their
\* content, the directories, the dry_run argument, the position of
\* clean_era5_city_folders, the city folders it has still to visit, and the
\* files and directories present when it was called
VARIABLES cl_files, cl_dirs, cl_dry_run, cl_pc, cl_todo, cl_before

\* getERA5Data.py and ERA5CityProcessor: the dates whose GRIB file exists in
\* the ERA5 directory, the dates saved in download_progress.json, the position
\* of process_era5_data, its set downloaded_dates and its place in all_dates,
\* what its last iteration did, the dates whose download call has returned
\* and those whose latest download call raised, the argument and the return
\* value of the last ensure_era5_data_available, and the number of runs
VARIABLES era_files, era_progress, era_pc, downloaded_dates, era_idx, era_event, era_ok, era_raised, era_needed, era_ret, era_runs

\* the per-city scripts: the files of the city folders with the run that wrote
\* them, the lines of each script's progress file, the position of the script
\* that is running and which one it is, its set processed_cities, its place in
\* city_folders, the number of runs so far, and a record of the runs: the
\* names loaded at the start of this run, the cities whose processing function
\* returned success and those it was called for in this run, the cities it
\* has ever returned success for, whether every city succeeded in the last
\* finished run of each script, and the files and progress at the start of
\* this run
VARIABLES pl_files, pl_progress, pl_pc, pl_script, processed_cities, pl_idx, pl_runs, pl_loaded, pl_succeeded, pl_calls, pl_ever, pl_full, pl_start

\* ERA5CityProcessor._get_era5_data_for_time: the target UTC time, the GRIB
\* file of its date and that of the next date, what the call returned and the
\* caller's position
VARIABLES gr_utc_time, gr_file, gr_next, gr_result, gr_pc

\* calculateHourlySensorData.calculate_hourly_data: the rows of the input
\* frame, the rows of the frame it returns, and the caller's position
VARIABLES sensor_df, hourly_df, hd_pc

\* attachSensorOnRoads.py: the detectors of a city, the detid column of its
\* roads, the detector the assignment loop is at, and the script's position
VARIABLES detectors_gdf, roads_detid, at_idx, at_pc

\* ERA5CityProcessor.process_all_dates: the city's timezone, the UTC dates
\* whose GRIB file is in the ERA5 directory now and at the start, the dates
\* recorded as processed, the dates whose parquet file was written, the dates
\* whose processing raised, the place in target_dates and the position
VARIABLES dp_timezone, dp_grib, dp_grib_at_start, processed_dates, dp_saved, dp_raised, dp_idx, dp_pc

tcVars == <<pc, op, timezone, time_in, result, back>>
strVars == <<time_str>>
callVars == <<frames, self_attrs, tz_cache, call_log, calls_made>>
resetVars == <<fs_files, rp_args, rp_pc, files_to_delete, rp_answer, rp_ret, fs_before>>
cleanVars == <<cl_files, cl_dirs, cl_dry_run, cl_pc, cl_todo, cl_before>>
eraVars == <<era_files, era_progress, era_pc, downloaded_dates, era_idx, era_event, era_ok, era_raised, era_needed, era_ret, era_runs>>
plVars == <<pl_files, pl_progress, pl_pc, pl_script, processed_cities, pl_idx, pl_runs, pl_loaded, pl_succeeded, pl_calls, pl_ever, pl_full, pl_start>>
gribVars == <<gr_utc_time, gr_file, gr_next, gr_result, gr_pc>>
hourlyVars == <<sensor_df, hourly_df, hd_pc>>
attachVars == <<detectors_gdf, roads_detid, at_idx, at_pc>>
datesVars == <<dp_timezone, dp_grib, dp_grib_at_start, processed_dates, dp_saved, dp_raised, dp_idx, dp_pc>>

vars == <<tcVars, strVars, callVars, resetVars, cleanVars, eraVars, plVars, gribVars, hourlyVars, attachVars, datesVars>>

\* what each part of the model leaves alone
notTC == <<strVars, callVars, resetVars, cleanVars, eraVars, plVars, gribVars, hourlyVars, attachVars, datesVars>>
notStr == <<callVars, resetVars, cleanVars, eraVars, plVars, gribVars, hourlyVars, attachVars, datesVars>>
notCalls == <<tcVars, strVars, resetVars, cleanVars, eraVars, plVars, gribVars, hourlyVars, attachVars, datesVars>>
notReset == <<tcVars, strVars, callVars, cleanVars, eraVars, plVars, gribVars, hourlyVars, attachVars, datesVars>>
notClean == <<tcVars, strVars, callVars, resetVars, eraVars, plVars, gribVars, hourlyVars, attachVars, datesVars>>
notEra == <<tcVars, strVars, callVars, resetVars, cleanVars, plVars, gribVars, hourlyVars, attachVars, datesVars>>
notPl == <<tcVars, strVars, callVars, resetVars, cleanVars, eraVars, gribVars, hourlyVars, attachVars, datesVars>>
notGrib == <<tcVars, strVars, callVars, resetVars, cleanVars, eraVars, plVars, hourlyVars, attachVars, datesVars>>
notHourly == <<tcVars, strVars, callVars, resetVars, cleanVars, eraVars, plVars, gribVars, attachVars, datesVars>>
notAttach == <<tcVars, strVars, callVars, resetVars, cleanVars, eraVars, plVars, gribVars, hourlyVars, datesVars>>
notDates == <<tcVars, strVars, callVars, resetVars, cleanVars, eraVars, plVars, gribVars, hourlyVars, attachVars>>

\* the state of a part that takes no part in a run
IdleTC ==
  /\ pc = "start"
  /\ op = "none"
  /\ timezone = "Asia/Taipei"
  /\ time_in = 0
  /\ result = [status |-> "none"]
  /\ back = [status |-> "none"]

\* the caller passes a datetime object, not a string
IdleStr == time_str = <<>>

IdleCalls ==
  /\ frames = <<>>
  /\ self_attrs = {}
  /\ tz_cache = <<>>
  /\ call_log = <<>>
  /\ calls_made = 0

IdleReset ==
  /\ fs_files = {}
  /\ rp_args = <<>>
  /\ rp_pc = "idle"
  /\ files_to_delete = <<>>
  /\ rp_answer = <<>>
  /\ rp_ret = 0
  /\ fs_before = {}

IdleClean ==
  /\ cl_files = <<>>
  /\ cl_dirs = {}
  /\ cl_dry_run = TRUE
  /\ cl_pc = "idle"
  /\ cl_todo = <<>>
  /\ cl_before = <<>>

IdleEra ==
  /\ era_files = {}
  /\ era_progress = {}
  /\ era_pc = "idle"
  /\ downloaded_dates = {}
  /\ era_idx = 0
  /\ era_event = <<>>
  /\ era_ok = {}
  /\ era_raised = {}
  /\ era_needed = {}
  /\ era_ret = FALSE
  /\ era_runs = 0

IdlePl ==
  /\ pl_files = <<>>
  /\ pl_progress = <<>>
  /\ pl_pc = "idle"
  /\ pl_script = "none"
  /\ processed_cities = {}
  /\ pl_idx = 0
  /\ pl_runs = 0
  /\ pl_loaded = {}
  /\ pl_succeeded = {}
  /\ pl_calls = {}
  /\ pl_ever = <<>>
  /\ pl_full = <<>>
  /\ pl_start = <<>>

IdleGrib ==
  /\ gr_utc_time = 0
  /\ gr_file = <<>>
  /\ gr_next = <<>>
  /\ gr_result = <<>>
  /\ gr_pc = "idle"

IdleHourly ==
  /\ sensor_df = <<>>
  /\ hourly_df = <<>>
  /\ hd_pc = "idle"

IdleAttach ==
  /\ detectors_gdf = <<>>
  /\ roads_detid = <<>>
  /\ at_idx = 0
  /\ at_pc = "idle"

IdleDates ==
  /\ dp_timezone = "UTC"
  /\ dp_grib = {}
  /\ dp_grib_at_start = {}
  /\ processed_dates = {}
  /\ dp_saved = {}
  /\ dp_raised = {}
  /\ dp_idx = 0
  /\ dp_pc = "idle"

----------------------------------------------------------------------------
(* Bounds of the model *)

\* inputs are drawn from days 1..MaxDay
MaxDay == 6

\* the threads calling one converter, and the calls they start in a run
NumThreads == 2
MaxCalls == 3

(* Units *)
MinutesPerHour == 60
HoursPerDay == 24
MinutesPerDay == HoursPerDay * MinutesPerHour

Day(d) == d * MinutesPerDay
HM(h, m) == h * MinutesPerHour + m

----------------------------------------------------------------------------
(* The zone database behind pytz.timezone(name).                           *)
(* utc_transition_times[i] is the UTC instant at which transition_info[i]  *)
(* comes into force; the first entry is the sentinel at the start of time. *)

ZoneInfo(off, d) == [utcoffset |-> off, dst |-> d]

ZoneDB ==
  [ name \in {"Asia/Taipei", "Europe/Rome", "America/Havana", "Africa/Cairo",
              "Antarctica/Troll", "Australia/Lord_Howe"} |->
    CASE name = "Asia/Taipei" ->
           \* UTC+8 all year, no DST rules
           [utc_transition_times |-> <<0>>,
            transition_info |-> <<ZoneInfo(480, 0)>>]
      [] name = "Europe/Rome" ->
           \* CET/CEST: 02:00 -> 03:00 in spring, 03:00 -> 02:00 in autumn
           [utc_transition_times |-> <<0, Day(2) + HM(1, 0), Day(5) + HM(1, 0)>>,
            transition_info |-> <<ZoneInfo(60, 0), ZoneInfo(120, 60), ZoneInfo(60, 0)>>]
      [] name = "America/Havana" ->
           \* CST/CDT: 00:00 -> 01:00 in spring, 01:00 -> 00:00 in autumn
           [utc_transition_times |-> <<0, Day(2) + HM(5, 0), Day(5) + HM(5, 0)>>,
            transition_info |-> <<ZoneInfo(-300, 0), ZoneInfo(-240, 60), ZoneInfo(-300, 0)>>]
      [] name = "Africa/Cairo" ->
           \* EET/EEST: 00:00 -> 01:00 in spring, 24:00 -> 23:00 in autumn
           [utc_transition_times |-> <<0, Day(1) + HM(22, 0), Day(5) + HM(21, 0)>>,
            transition_info |-> <<ZoneInfo(120, 0), ZoneInfo(180, 60), ZoneInfo(120, 0)>>]
      [] name = "Antarctica/Troll" ->
           \* +00/+02: a two-hour shift, 01:00 -> 03:00 and 03:00 -> 01:00
           [utc_transition_times |-> <<0, Day(2) + HM(1, 0), Day(5) + HM(1, 0)>>,
            transition_info |-> <<ZoneInfo(0, 0), ZoneInfo(120, 120), ZoneInfo(0, 0)>>]
      [] OTHER ->
           \* Australia/Lord_Howe, +1030/+11: a half-hour shift,
           \* 02:00 -> 01:30 (end of DST) and 02:00 -> 02:30 (start of DST)
           [utc_transition_times |-> <<0, Day(1) + HM(15, 0), Day(4) + HM(15, 30)>>,
            transition_info |-> <<ZoneInfo(660, 30), ZoneInfo(630, 0), ZoneInfo(660, 30)>>] ]

KnownZones == DOMAIN ZoneDB

\* the timezone names a caller may pass; "Mars/Colony" is in no zone database
ZoneNames == KnownZones \cup {"Mars/Colony"}

\* the moments a caller may pass: every half hour of days 1..MaxDay
Moments == { Day(d) + HM(h, m) : d \in 1..MaxDay, h \in 0..(HoursPerDay - 1), m \in {0, 30} }

----------------------------------------------------------------------------
(* pytz *)

Max(a, b) == IF a >= b THEN a ELSE b

\* bisect.bisect_right(a, x): the number of entries of the sorted a that are <= x
bisect_right(a, x) == Cardinality({ i \in DOMAIN a : a[i] <= x })

\* the tzinfo of zone tz in force for a UTC-valued key, as pytz looks it up:
\* idx = max(0, bisect_right(self._utc_transition_times, dt) - 1)
tzinfo_at(tz, dt) ==
  tz.transition_info[Max(1, bisect_right(tz.utc_transition_times, dt))]

\* an aware datetime: the UTC instant and the tzinfo attached
Aware(utc, inf) == [utc |-> utc, utcoffset |-> inf.utcoffset, dst |-> inf.dst]

\* the wall-clock reading of an aware datetime: dt.replace(tzinfo=None)
Wall(a) == a.utc + a.utcoffset

\* DstTzInfo.fromutc(dt): (dt + inf[0]).replace(tzinfo=self._tzinfos[inf])
fromutc(tz, utc) == Aware(utc, tzinfo_at(tz, utc))

\* DstTzInfo.localize(dt, is_dst=None): the candidates are the tzinfos in
\* force one day before and one day after dt; a candidate is kept when
\* normalising dt under it gives back the wall-clock time dt.
localize_candidates(tz, dt) ==
  { loc_dt \in { fromutc(tz, dt - tzinfo_at(tz, dt + delta).utcoffset) :
                   delta \in {0 - MinutesPerDay, MinutesPerDay} } :
      Wall(loc_dt) = dt }

\* a variant of localize that guesses (is_dst=False) where localize(is_dst=None)
\* raises: the standard-time reading of a skipped or repeated wall-clock time
localize_guess(tz, dt) ==
  LET possible_loc_dt == localize_candidates(tz, dt)
      infos == { tzinfo_at(tz, dt + delta) : delta \in {0 - MinutesPerDay, MinutesPerDay} }
      std == CHOOSE inf \in infos : \A other \in infos : inf.dst <= other.dst
  IN IF Cardinality(possible_loc_dt) = 1
       THEN [ok |-> TRUE, dt |-> CHOOSE a \in possible_loc_dt : TRUE]
       ELSE [ok |-> TRUE, dt |-> Aware(dt - std.utcoffset, std)]

localize(tz, dt) ==
  LET possible_loc_dt == localize_candidates(tz, dt) IN
  IF Cardinality(possible_loc_dt) = 1
    THEN [ok |-> TRUE, dt |-> CHOOSE a \in possible_loc_dt : TRUE]
  ELSE IF Cardinality(possible_loc_dt) = 0
    THEN [ok |-> FALSE, error |-> "NonExistentTimeError"]
  ELSE [ok |-> FALSE, error |-> "AmbiguousTimeError"]

\* a variant of pytz.timezone that falls back to a default zone for a name
\* it does not know
pytz_timezone_default(zone) ==
  IF zone \in KnownZones
    THEN [ok |-> TRUE, tz |-> ZoneDB[zone]]
    ELSE [ok |-> TRUE, tz |-> ZoneDB["Asia/Taipei"]]

\* pytz.timezone(zone): the zone's table, or UnknownTimeZoneError
pytz_timezone(zone) ==
  IF zone \in KnownZones
    THEN [ok |-> TRUE, tz |-> ZoneDB[zone]]
    ELSE [ok |-> FALSE, error |-> "UnknownTimeZoneError"]

\* a variant that tests the whole UTC offset instead of its DST part
utcoffset_nonzero(a) == a.utcoffset # 0

\* aware.dst() != pd.Timedelta(0)
dst_nonzero(a) == a.dst # 0

\* a variant that drops the tzinfo without converting
astimezone_dropped(a) == Wall(a)

\* aware.astimezone(pytz.UTC).replace(tzinfo=None)
astimezone_utc(a) == a.utc

----------------------------------------------------------------------------
(* pandas *)

\* dt.replace(hour=h, minute=m, second=.., microsecond=..) on a naive moment.
\* Seconds and microseconds are below the resolution of the model; 23:59
\* stands for 23:59:59.999999.
replace_hm(dt, h, m) == (dt \div MinutesPerDay) * MinutesPerDay + HM(h, m)

\* a variant that leaves the first instant out of the count
date_range_len_short(s, e) ==
  IF e.utc < s.utc THEN 0 ELSE (e.utc - s.utc) \div MinutesPerHour

\* len(pd.date_range(start=s, end=e, freq='h')) for aware endpoints: the
\* instants s, s + 1h, s + 2h, ... that are not after e, stepped in absolute
\* time.
date_range_len(s, e) ==
  IF e.utc < s.utc THEN 0 ELSE ((e.utc - s.utc) \div MinutesPerHour) + 1

----------------------------------------------------------------------------
(* util/TimeConverter.py *)

DstStarts == "DST starts (Spring, losing one hour)"
DstEnds == "DST ends (Fall, gaining one hour)"
None == "None"

Returned(t_in, zone, converted, is_dst, dst_transition) ==
  [status |-> "returned", input_time |-> t_in, timezone |-> zone,
   converted |-> converted, is_dst |-> is_dst, dst_transition |-> dst_transition]

Raised(err) == [status |-> "raised", error |-> err]

NoResult == [status |-> "none"]

\* a variant with the two tags exchanged
dst_transition_swapped(len) ==
  IF len # HoursPerDay
    THEN IF len = HoursPerDay - 1 THEN DstEnds
         ELSE IF len = HoursPerDay + 1 THEN DstStarts
         ELSE None
    ELSE None

\* the if/elif of lines 49-54 and 106-111: no else branch
dst_transition_of(len) ==
  IF len # HoursPerDay
    THEN IF len = HoursPerDay - 1 THEN DstStarts
         ELSE IF len = HoursPerDay + 1 THEN DstEnds
         ELSE None
    ELSE None

\* len(day_hours) of local_to_utc, lines 40-47; the two localize calls may raise
day_hours(tz, local_time) ==
  LET day_start == localize(tz, replace_hm(local_time, 0, 0))
      day_end == localize(tz, replace_hm(local_time, HoursPerDay - 1, MinutesPerHour - 1))
  IN IF ~day_start.ok THEN [ok |-> FALSE, error |-> day_start.error]
     ELSE IF ~day_end.ok THEN [ok |-> FALSE, error |-> day_end.error]
     ELSE [ok |-> TRUE, len |-> date_range_len(day_start.dt, day_end.dt)]

\* lines 32-62 of local_to_utc, once tz = pytz.timezone(zone) is at hand
local_to_utc_in(local_time, zone, tz) ==
  LET local_time_aware == localize(tz, local_time) IN
  IF ~local_time_aware.ok THEN Raised(local_time_aware.error)
  ELSE
    LET is_dst == dst_nonzero(local_time_aware.dt)
        utc_time == astimezone_utc(local_time_aware.dt)
        hours == day_hours(tz, local_time)
    IN IF ~hours.ok THEN Raised(hours.error)
       ELSE Returned(local_time, zone, utc_time, is_dst, dst_transition_of(hours.len))

local_to_utc(local_time, zone) ==
  LET z == pytz_timezone(zone) IN
  IF ~z.ok THEN Raised(z.error)
  ELSE local_to_utc_in(local_time, zone, z.tz)

\* len(local_hours) of utc_to_local, lines 97-104
local_hours(tz, utc_time) ==
  date_range_len(fromutc(tz, replace_hm(utc_time, 0, 0)),
                 fromutc(tz, replace_hm(utc_time, HoursPerDay - 1, MinutesPerHour - 1)))

\* lines 90-119 of utc_to_local, once tz = pytz.timezone(zone) is at hand
utc_to_local_in(utc_time, zone, tz) ==
  LET local_time == fromutc(tz, utc_time)
      is_dst == dst_nonzero(local_time)
  IN Returned(utc_time, zone, Wall(local_time), is_dst,
              dst_transition_of(local_hours(tz, utc_time)))

utc_to_local(utc_time, zone) ==
  LET z == pytz_timezone(zone) IN
  IF ~z.ok THEN Raised(z.error)
  ELSE utc_to_local_in(utc_time, zone, z.tz)

----------------------------------------------------------------------------
(* The callers: one call of either operation on a moment and a timezone    *)
(* name, and the conversion back of a UTC time that local_to_utc returned. *)
(* A raised error propagates out of the call: nothing catches it.          *)

TypeOK ==
  /\ pc \in {"start", "done", "back"}
  /\ op \in {"none", "local_to_utc", "utc_to_local"}
  /\ timezone \in ZoneNames
  /\ time_in \in Moments
  /\ result.status \in {"none", "returned", "raised"}
  /\ back.status \in {"none", "returned", "raised"}

Init ==
  /\ pc = "start"
  /\ op = "none"
  /\ timezone \in ZoneNames
  /\ time_in \in Moments
  /\ result = NoResult
  /\ back = NoResult
  /\ IdleStr
  /\ IdleCalls
  /\ IdleReset
  /\ IdleClean
  /\ IdleEra
  /\ IdlePl
  /\ IdleGrib
  /\ IdleHourly
  /\ IdleAttach
  /\ IdleDates

LocalToUtc ==
  /\ pc = "start"
  /\ op' = "local_to_utc"
  /\ result' = local_to_utc(time_in, timezone)
  /\ pc' = "done"
  /\ UNCHANGED <<timezone, time_in, back>>
  /\ UNCHANGED notTC

UtcToLocal ==
  /\ pc = "start"
  /\ op' = "utc_to_local"
  /\ result' = utc_to_local(time_in, timezone)
  /\ pc' = "done"
  /\ UNCHANGED <<timezone, time_in, back>>
  /\ UNCHANGED notTC

\* utc_to_local(local_to_utc(t, Z)['utc_time'], Z)
ConvertBack ==
  /\ pc = "done"
  /\ op = "local_to_utc"
  /\ result.status = "returned"
  /\ back' = utc_to_local(result.converted, timezone)
  /\ pc' = "back"
  /\ UNCHANGED <<op, timezone, time_in, result>>
  /\ UNCHANGED notTC

Next == LocalToUtc \/ UtcToLocal \/ ConvertBack

Spec == Init /\ [][Next]_vars

----------------------------------------------------------------------------
(* Calls with the time given as a string: the isinstance(.., str) branch   *)
(* of lines 26-27 and 81-82.  A string is the sequence of its numeric      *)
(* fields, <<a, b, c>> for a date and <<a, b, c, h, m>> with a time of     *)
(* day; <<>> stands for a text that holds no date.  Day 2 of the model is  *)
(* 2024-03-31.                                                             *)

\* days of 2024 before the first of each month
DaysBeforeMonth == <<0, 31, 60, 91, 121, 152, 182, 213, 244, 274, 305, 335>>
DaysInMonth == <<31, 29, 31, 30, 31, 30, 31, 31, 30, 31, 30, 31>>

\* the model day of a calendar date of 2024
DayIndex(month, day) == (DaysBeforeMonth[month] + day) - (DaysBeforeMonth[3] + 29)

\* the calendar date <<year, month, day>> of a model day
DateOfDay(d) == IF 29 + d <= 31 THEN <<2024, 3, 29 + d>> ELSE <<2024, 4, d - 2>>

\* the spellings of a moment: "YYYY-MM-DD HH:MM", "DD-MM-YYYY HH:MM" and,
\* at midnight, "DD-MM-YYYY"
IsoString(d, h, m) == DateOfDay(d) \o <<h, m>>
DayFirstString(d, h, m) == <<DateOfDay(d)[3], DateOfDay(d)[2], DateOfDay(d)[1], h, m>>
DayFirstDate(d) == <<DateOfDay(d)[3], DateOfDay(d)[2], DateOfDay(d)[1]>>

TimeStrings ==
  { IsoString(d, h, m) : d \in 1..MaxDay, h \in {0, 2, 12}, m \in {0, 30} }
    \cup { DayFirstString(d, h, m) : d \in 1..MaxDay, h \in {0, 2, 12}, m \in {0, 30} }
    \cup { DayFirstDate(d) : d \in 1..MaxDay }
    \cup { <<>> }

\* the string is in the documented format "YYYY-MM-DD HH:MM"
Recognized(str) == Len(str) = 5 /\ str[1] > 31

\* pd.to_datetime(str) on one string: a year-first date is read as
\* year-month-day; any other date is read month first and, when the first
\* field cannot be a month, day first; a time of day is optional.
to_datetime(str) ==
  IF Len(str) < 3 THEN [ok |-> FALSE, error |-> "DateParseError"]
  ELSE
    LET yearFirst == str[1] > 31
        month == IF yearFirst THEN str[2] ELSE IF str[1] > 12 THEN str[2] ELSE str[1]
        day == IF yearFirst THEN str[3] ELSE IF str[1] > 12 THEN str[1] ELSE str[2]
        hm == IF Len(str) = 5 THEN HM(str[4], str[5]) ELSE 0
    IN IF month \in 1..12 /\ day \in 1..DaysInMonth[month]
         THEN [ok |-> TRUE, moment |-> Day(DayIndex(month, day)) + hm]
         ELSE [ok |-> FALSE, error |-> "DateParseError"]

InitStr ==
  /\ pc = "start"
  /\ op = "none"
  /\ timezone \in ZoneNames
  /\ time_in = 0
  /\ result = NoResult
  /\ back = NoResult
  /\ time_str \in TimeStrings
  /\ IdleCalls
  /\ IdleReset
  /\ IdleClean
  /\ IdleEra
  /\ IdlePl
  /\ IdleGrib
  /\ IdleHourly
  /\ IdleAttach
  /\ IdleDates

\* local_to_utc(time_str, timezone)
LocalToUtcStr ==
  /\ pc = "start"
  /\ op' = "local_to_utc"
  /\ LET parsed == to_datetime(time_str) IN
       IF parsed.ok
         THEN /\ time_in' = parsed.moment
              /\ result' = local_to_utc(parsed.moment, timezone)
         ELSE /\ time_in' = time_in
              /\ result' = Raised(parsed.error)
  /\ pc' = "done"
  /\ UNCHANGED <<timezone, back>>
  /\ UNCHANGED time_str
  /\ UNCHANGED notStr

\* utc_to_local(time_str, timezone)
UtcToLocalStr ==
  /\ pc = "start"
  /\ op' = "utc_to_local"
  /\ LET parsed == to_datetime(time_str) IN
       IF parsed.ok
         THEN /\ time_in' = parsed.moment
              /\ result' = utc_to_local(parsed.moment, timezone)
         ELSE /\ time_in' = time_in
              /\ result' = Raised(parsed.error)
  /\ pc' = "done"
  /\ UNCHANGED <<timezone, back>>
  /\ UNCHANGED time_str
  /\ UNCHANGED notStr

NextStr == LocalToUtcStr \/ UtcToLocalStr

SpecStr == InitStr /\ [][NextStr]_vars

----------------------------------------------------------------------------
(* Several threads calling one TimeConverter.  A call is split where       *)
(* another thread can run in between: the lookup of the zone in pytz's     *)
(* cache, the load of a zone that is not cached, the conversion on the     *)
(* frame's local variables, and the return.  TimeConverter.__init__ sets   *)
(* no attribute and neither operation assigns to self.                     *)

Threads == 1..NumThreads

Ops == {"local_to_utc", "utc_to_local"}
CallMoments == {Day(2) + HM(12, 0)}
CallZones == {"Europe/Rome", "Asia/Taipei", "Mars/Colony"}

NoTz == [utc_transition_times |-> <<>>, transition_info |-> <<>>]

IdleFrame ==
  [pc |-> "idle", op |-> "none", time |-> 0, zone |-> "", tz |-> NoTz, result |-> NoResult]

\* a variant of the cache that hands out an entry without regard to its key
cache_get_any(cache, zone) == cache[CHOOSE z \in DOMAIN cache : TRUE]

\* pytz: _tzinfo_cache[zone]
cache_get(cache, zone) == cache[zone]

\* pytz: _tzinfo_cache[zone] = build_tzinfo(zone, fp)
cache_put(cache, zone, tz) ==
  [z \in DOMAIN cache \cup {zone} |-> IF z = zone THEN tz ELSE cache[z]]

\* a variant in which tz is kept in one place for all the threads: a thread
\* reads the tz of the first thread that holds one
frame_tz_shared(fr, t) ==
  LET holders == { u \in DOMAIN fr : fr[u].pc = "convert" }
  IN fr[CHOOSE u \in holders : \A v \in holders : u <= v].tz

\* the local variable tz of the call thread t is in
frame_tz(fr, t) == fr[t].tz

\* the result of the same call made alone
CallAlone(o, time, zone) ==
  IF o = "local_to_utc" THEN local_to_utc(time, zone) ELSE utc_to_local(time, zone)

InitCalls ==
  /\ IdleTC
  /\ IdleStr
  /\ frames = [t \in Threads |-> IdleFrame]
  /\ self_attrs = {}
  /\ tz_cache = <<>>
  /\ call_log = <<>>
  /\ calls_made = 0
  /\ IdleReset
  /\ IdleClean
  /\ IdleEra
  /\ IdlePl
  /\ IdleGrib
  /\ IdleHourly
  /\ IdleAttach
  /\ IdleDates

\* a thread calls converter.local_to_utc(time, zone) or converter.utc_to_local(time, zone)
CallEnter ==
  \E t \in Threads, o \in Ops, time \in CallMoments, zone \in CallZones :
    /\ frames[t].pc = "idle"
    /\ calls_made < MaxCalls
    /\ frames' = [frames EXCEPT ![t] =
                    [pc |-> "lookup", op |-> o, time |-> time, zone |-> zone,
                     tz |-> NoTz, result |-> NoResult]]
    /\ calls_made' = calls_made + 1
    /\ UNCHANGED <<self_attrs, tz_cache, call_log>>
    /\ UNCHANGED notCalls

\* pytz.timezone(zone): if zone in _tzinfo_cache: return _tzinfo_cache[zone]
CallLookup ==
  \E t \in Threads :
    /\ frames[t].pc = "lookup"
    /\ IF frames[t].zone \in DOMAIN tz_cache
         THEN frames' = [frames EXCEPT ![t].pc = "convert",
                                       ![t].tz = cache_get(tz_cache, frames[t].zone)]
         ELSE frames' = [frames EXCEPT ![t].pc = "load"]
    /\ UNCHANGED <<self_attrs, tz_cache, call_log, calls_made>>
    /\ UNCHANGED notCalls

\* pytz.timezone(zone) on a zone that is not cached: the zone file is read
\* and cached, or UnknownTimeZoneError leaves the call
CallLoad ==
  \E t \in Threads :
    /\ frames[t].pc = "load"
    /\ LET z == pytz_timezone(frames[t].zone) IN
         IF z.ok
           THEN /\ tz_cache' = cache_put(tz_cache, frames[t].zone, z.tz)
                /\ frames' = [frames EXCEPT ![t].pc = "convert",
                                            ![t].tz = cache_get(tz_cache', frames[t].zone)]
           ELSE /\ tz_cache' = tz_cache
                /\ frames' = [frames EXCEPT ![t].pc = "done", ![t].result = Raised(z.error)]
    /\ UNCHANGED <<self_attrs, call_log, calls_made>>
    /\ UNCHANGED notCalls

\* the rest of the operation, on the locals of the frame
CallConvert ==
  \E t \in Threads :
    /\ frames[t].pc = "convert"
    /\ frames' = [frames EXCEPT
         ![t].pc = "done",
         ![t].result =
            IF frames[t].op = "local_to_utc"
              THEN local_to_utc_in(frames[t].time, frames[t].zone, frame_tz(frames, t))
              ELSE utc_to_local_in(frames[t].time, frames[t].zone, frame_tz(frames, t))]
    /\ UNCHANGED <<self_attrs, tz_cache, call_log, calls_made>>
    /\ UNCHANGED notCalls

\* the call hands its result, or its error, to the caller
CallReturn ==
  \E t \in Threads :
    /\ frames[t].pc = "done"
    /\ call_log' = Append(call_log,
                          [op |-> frames[t].op, time |-> frames[t].time,
                           zone |-> frames[t].zone, result |-> frames[t].result])
    /\ frames' = [frames EXCEPT ![t] = IdleFrame]
    /\ UNCHANGED <<self_attrs, tz_cache, calls_made>>
    /\ UNCHANGED notCalls

NextCalls == CallEnter \/ CallLookup \/ CallLoad \/ CallConvert \/ CallReturn

SpecCalls == InitCalls /\ [][NextCalls]_vars

-----------------------------------------------------------------------------
(* util/resetProgress.py: reset_progress.  A file name is the sequence of  *)
(* the pieces it is formatted from, a path is the pair of a directory and  *)
(* a file name, and the file system is the set of paths that exist.        *)

DATA_ROOT == "data_root"

\* glob.glob(os.path.join(data_root, "*")) filtered by os.path.isdir
city_folders == {"augsburg", "basel"}

path_join(dir, name) == <<dir, name>>

\* the progress file each pipeline script writes under the data root
hourly_progress_file == <<"hourly_processing_progress.txt">>
csv2parquet_progress_file == <<"csv2parquet_progress.txt">>
road2grid_progress_file == <<"road2grid_progress.txt">>
detector_progress_file == <<"detector_conversion_progress.txt">>
npz_progress_file == <<"npz_conversion_progress.txt">>

PipelineProgressFiles ==
  { hourly_progress_file, csv2parquet_progress_file, road2grid_progress_file,
    detector_progress_file, npz_progress_file }

\* the list reset_progress goes through
progress_files ==
  << <<"hourly_processing_progress.txt">>,
     <<"csv2parquet_progress.txt">>,
     <<"road2grid_progress.txt">>,
     <<"detectors_processing_progress.txt">> >>

parquet_patterns == << <<"detectors.parquet">> >>

\* f"{city_name}_metadata.json"
metadata_file(city_name) == <<city_name, "_metadata.json">>

hourly_readings_file == <<"hourly_readings.parquet">>

\* the files the pipeline leaves under the data root
PipelineFiles ==
  { path_join(DATA_ROOT, n) : n \in PipelineProgressFiles }
    \cup { path_join(c, parquet_patterns[1]) : c \in city_folders }
    \cup { path_join(c, metadata_file(c)) : c \in city_folders }
    \cup { path_join(c, hourly_readings_file) : c \in city_folders }

Whitespace == {" ", "\t", "\n"}

\* the answers typed at the prompt
Answers ==
  { <<"y">>, <<"Y">>, <<" ", "y">>, <<"y", "\n">>, <<"n">>, <<"N">>,
    <<"y", "e", "s">>, <<>> }

\* str.strip(): drops the whitespace at both ends
RECURSIVE lstrip(_)
lstrip(str) ==
  IF str # <<>> /\ Head(str) \in Whitespace THEN lstrip(Tail(str)) ELSE str

RECURSIVE rstrip(_)
rstrip(str) ==
  IF str # <<>> /\ str[Len(str)] \in Whitespace
  THEN rstrip(SubSeq(str, 1, Len(str) - 1))
  ELSE str

strip(str) == rstrip(lstrip(str))

\* str.lower() on the letters that occur in the answers
lower_char(ch) ==
  CASE ch = "Y" -> "y"
    [] ch = "N" -> "n"
    [] OTHER -> ch

lower(str) == [i \in 1..Len(str) |-> lower_char(str[i])]

\* a confirmation that accepts every answer beginning with y
confirmed_prefix(answer) ==
  LET confirm == lower(strip(answer)) IN confirm # <<>> /\ confirm[1] = "y"

\* confirm = input(...).strip().lower(); confirm == 'y'
confirmed(answer) ==
  LET confirm == lower(strip(answer)) IN confirm = <<"y">>

\* the members of a set, listed in the order of a sequence that holds them
RECURSIVE existing(_, _)
existing(paths, files) ==
  IF paths = <<>> THEN <<>>
  ELSE IF Head(paths) \in files
       THEN <<Head(paths)>> \o existing(Tail(paths), files)
       ELSE existing(Tail(paths), files)

\* the city folders in the order glob returns them
RECURSIVE SeqOfSet(_)
SeqOfSet(S) ==
  IF S = {} THEN <<>>
  ELSE LET x == CHOOSE y \in S : TRUE IN <<x>> \o SeqOfSet(S \ {x})

\* the list built before the deletion
collect(files, args) ==
  LET cities == SeqOfSet(city_folders)
      progress == [i \in 1..Len(progress_files) |-> path_join(DATA_ROOT, progress_files[i])]
      parquet == [i \in 1..Len(cities) |-> path_join(cities[i], parquet_patterns[1])]
      metadata == [i \in 1..Len(cities) |-> path_join(cities[i], metadata_file(cities[i]))]
  IN (IF args.delete_progress_files THEN existing(progress, files) ELSE <<>>)
       \o (IF args.delete_parquet_files THEN existing(parquet, files) ELSE <<>>)
       \o (IF args.delete_metadata_files THEN existing(metadata, files) ELSE <<>>)

Range(seq) == {seq[i] : i \in 1..Len(seq)}

ResetArgs ==
  [delete_progress_files : BOOLEAN, delete_parquet_files : BOOLEAN,
   delete_metadata_files : BOOLEAN, dry_run : BOOLEAN]

InitReset ==
  /\ IdleTC
  /\ IdleStr
  /\ IdleCalls
  /\ fs_files \in SUBSET PipelineFiles
  /\ rp_args \in ResetArgs
  /\ rp_pc = "start"
  /\ files_to_delete = <<>>
  /\ rp_answer = <<>>
  /\ rp_ret = 0
  /\ fs_before = fs_files
  /\ IdleClean
  /\ IdleEra
  /\ IdlePl
  /\ IdleGrib
  /\ IdleHourly
  /\ IdleAttach
  /\ IdleDates

\* reset_progress up to its prompt, or up to its return when it does not ask
ResetCollect ==
  /\ rp_pc = "start"
  /\ files_to_delete' = collect(fs_files, rp_args)
  /\ IF ~rp_args.dry_run /\ files_to_delete' # <<>>
     THEN /\ rp_pc' = "prompt"
          /\ rp_ret' = rp_ret
     ELSE /\ rp_pc' = "returned"
          /\ rp_ret' = Len(files_to_delete')
  /\ UNCHANGED <<fs_files, rp_args, rp_answer, fs_before>>
  /\ UNCHANGED notReset

\* the answer arrives: the files are removed, or the operation is cancelled
ResetAnswer ==
  \E answer \in Answers :
    /\ rp_pc = "prompt"
    /\ rp_answer' = answer
    /\ fs_files' = IF confirmed(answer)
                   THEN fs_files \ Range(files_to_delete)
                   ELSE fs_files
    /\ rp_ret' = Len(files_to_delete)
    /\ rp_pc' = "returned"
    /\ UNCHANGED <<rp_args, files_to_delete, fs_before>>
    /\ UNCHANGED notReset

NextReset == ResetCollect \/ ResetAnswer

SpecReset == InitReset /\ [][NextReset]_vars

-----------------------------------------------------------------------------
(* util/cleanData.py: clean_era5_city_folders.  A path is the sequence of  *)
(* its components below base_dir; the base directory itself is <<>>.       *)

Parent(path) == SubSeq(path, 1, Len(path) - 1)

\* the path lies below the directory
Under(path, dir) ==
  Len(path) > Len(dir) /\ SubSeq(path, 1, Len(dir)) = dir

\* every directory a path lies in, the base directory included
Ancestors(path) == {SubSeq(path, 1, n) : n \in 0..(Len(path) - 1)}

era5_cities == {"taipei", "rome"}

\* city_folder / "weather" / "grid_info.parquet"
grid_info_path_of(city_folder) == city_folder \o <<"weather", "grid_info.parquet">>

\* the files a city folder may hold, and the directories that may be empty
CityFiles(c) ==
  { <<c, "weather", "grid_info.parquet">>,
    <<c, "weather", "rain_2015.parquet">>,
    <<c, "grid_info.parquet">>,
    <<c, "backup", "weather", "grid_info.parquet">> }

CityDirs(c) == { <<c>>, <<c, "backup">> }

BaseFiles == { <<"download_progress.json">> }

GridContents == {"grid-a", "grid-b"}

\* the trees clean_era5_city_folders can be started on
Trees ==
  { [files |-> [p \in F |-> IF p[Len(p)] = "grid_info.parquet" THEN g ELSE "bytes"],
     dirs |-> UNION {Ancestors(p) : p \in F} \cup UNION {Ancestors(d) \cup {d} : d \in E}] :
      F \in SUBSET (BaseFiles \cup UNION {CityFiles(c) : c \in era5_cities}),
      E \in SUBSET (UNION {CityDirs(c) : c \in era5_cities}),
      g \in GridContents }

\* a comparison of the file name alone
keeps_by_name(file_path, grid_info_path) ==
  file_path[Len(file_path)] = grid_info_path[Len(grid_info_path)]

\* file_path != grid_info_path decides what is deleted
keeps(file_path, grid_info_path) == file_path = grid_info_path

Restrict(f, S) == [p \in S |-> f[p]]

\* not any(root_path.iterdir())
is_empty(root_path, st) ==
  /\ \A p \in DOMAIN st.files : Parent(p) # root_path
  /\ \A d \in st.dirs : d = <<>> \/ Parent(d) # root_path

\* the body of the walk for one directory: its files, then the directory
visit(root_path, st, city_folder, grid_info_exists, dry_run) ==
  LET grid_info_path == grid_info_path_of(city_folder)
      doomed == {p \in DOMAIN st.files :
                   Parent(p) = root_path /\ ~keeps(p, grid_info_path)}
      st1 == IF dry_run THEN st
             ELSE [st EXCEPT !.files = Restrict(st.files, DOMAIN st.files \ doomed)]
      considered ==
        /\ root_path # city_folder
        /\ root_path # city_folder \o <<"weather">>
        /\ (~grid_info_exists \/ "weather" \notin Range(root_path))
        /\ (is_empty(root_path, st1) \/ ~grid_info_exists)
  IN IF considered /\ ~dry_run /\ is_empty(root_path, st1)
     THEN [st1 EXCEPT !.dirs = st1.dirs \ {root_path}]
     ELSE st1

\* os.walk(city_folder, topdown=False): the subdirectories first
RECURSIVE walk(_, _, _, _, _)
RECURSIVE walk_each(_, _, _, _, _)
walk(root_path, st, city_folder, grid_info_exists, dry_run) ==
  LET subdirs == {d \in st.dirs : d # <<>> /\ Parent(d) = root_path}
  IN visit(root_path,
           walk_each(subdirs, st, city_folder, grid_info_exists, dry_run),
           city_folder, grid_info_exists, dry_run)

walk_each(subdirs, st, city_folder, grid_info_exists, dry_run) ==
  IF subdirs = {} THEN st
  ELSE LET d == CHOOSE x \in subdirs : TRUE
       IN walk_each(subdirs \ {d},
                    walk(d, st, city_folder, grid_info_exists, dry_run),
                    city_folder, grid_info_exists, dry_run)

\* one iteration of the loop over the city folders
clean_city(city_folder, st, dry_run) ==
  LET grid_info_exists == grid_info_path_of(city_folder) \in DOMAIN st.files
      walked == walk(city_folder, st, city_folder, grid_info_exists, dry_run)
      weather_dir == city_folder \o <<"weather">>
      weather_exists == weather_dir \in walked.dirs \/ weather_dir \in DOMAIN walked.files
  IN IF ~weather_exists /\ ~dry_run
     THEN [walked EXCEPT !.dirs = walked.dirs \cup {weather_dir}]
     ELSE walked

InitClean ==
  /\ IdleTC
  /\ IdleStr
  /\ IdleCalls
  /\ IdleReset
  /\ \E tree \in Trees :
       /\ cl_files = tree.files
       /\ cl_dirs = tree.dirs
       /\ cl_before = tree
  /\ cl_dry_run \in BOOLEAN
  /\ cl_pc = "start"
  /\ cl_todo = <<>>
  /\ IdleEra
  /\ IdlePl
  /\ IdleGrib
  /\ IdleHourly
  /\ IdleAttach
  /\ IdleDates

\* up to the loop: the base directory and the list of city folders
CleanStart ==
  /\ cl_pc = "start"
  /\ LET found == SeqOfSet({d \in cl_dirs : Len(d) = 1})
     IN IF <<>> \notin cl_dirs \/ found = <<>>
        THEN /\ cl_pc' = "returned"
             /\ cl_todo' = <<>>
        ELSE /\ cl_pc' = "loop"
             /\ cl_todo' = found
  /\ UNCHANGED <<cl_files, cl_dirs, cl_dry_run, cl_before>>
  /\ UNCHANGED notClean

\* the loop body for the next city folder
CleanCity ==
  /\ cl_pc = "loop"
  /\ cl_todo # <<>>
  /\ LET st == clean_city(Head(cl_todo), [files |-> cl_files, dirs |-> cl_dirs], cl_dry_run)
     IN /\ cl_files' = st.files
        /\ cl_dirs' = st.dirs
  /\ cl_todo' = Tail(cl_todo)
  /\ UNCHANGED <<cl_dry_run, cl_pc, cl_before>>
  /\ UNCHANGED notClean

\* the loop is over: the statistics are printed
CleanFinish ==
  /\ cl_pc = "loop"
  /\ cl_todo = <<>>
  /\ cl_pc' = "returned"
  /\ UNCHANGED <<cl_files, cl_dirs, cl_dry_run, cl_todo, cl_before>>
  /\ UNCHANGED notClean

NextClean == CleanStart \/ CleanCity \/ CleanFinish

SpecClean == InitClean /\ [][NextClean]_vars

-----------------------------------------------------------------------------
(* util/getERA5Data.py (process_era5_data and the helpers it shares) and   *)
(* ERA5CityProcessor.ensure_era5_data_available.  A date stands for its    *)
(* file era5_rainfall_<date>.grib.                                         *)

\* runs of the two programs in one behaviour
MaxRuns == 2

\* all_dates, sorted
all_dates == <<"2024-03-30", "2024-03-31", "2024-04-01">>

\* client.retrieve writes the file and returns, or raises, with or without
\* leaving a file behind
Outcomes == {"ok", "raise", "raise_partial"}

\* download_era5_rainfall: the files afterwards and whether it returned
download_era5_rainfall(date, files, outcome) ==
  IF date \in files THEN [files |-> files, returned |-> TRUE]
  ELSE CASE outcome = "ok" -> [files |-> files \cup {date}, returned |-> TRUE]
         [] outcome = "raise" -> [files |-> files, returned |-> FALSE]
         [] outcome = "raise_partial" -> [files |-> files \cup {date}, returned |-> FALSE]

\* load_download_progress: the saved list, [] when the file is missing
load_download_progress(progress) == progress

\* a loop body that marks the date whatever the download did
mark_always(date, downloaded, dl) == downloaded \cup {date}

\* downloaded_dates.add(date_str) is reached only when the download returned
mark(date, downloaded, dl) ==
  IF dl.returned THEN downloaded \cup {date} ELSE downloaded

\* the bookkeeping of what each download call did
note_ok(date, dl, ok) == IF dl.returned THEN ok \cup {date} ELSE ok

note_raised(date, dl, raised) ==
  IF dl.returned THEN raised \ {date} ELSE raised \cup {date}

\* _download_missing_era5_data over the dates still to go
RECURSIVE download_missing(_, _, _)
download_missing(missing_dates, st, outcome) ==
  IF missing_dates = <<>> THEN st
  ELSE LET date_str == Head(missing_dates)
       IN IF date_str \in st.downloaded
          THEN download_missing(Tail(missing_dates), st, outcome)
          ELSE LET dl == download_era5_rainfall(date_str, st.files, outcome[date_str])
                   downloaded == mark(date_str, st.downloaded, dl)
               IN download_missing(
                    Tail(missing_dates),
                    [files |-> dl.files,
                     downloaded |-> downloaded,
                     progress |-> IF dl.returned THEN downloaded ELSE st.progress,
                     ok |-> note_ok(date_str, dl, st.ok),
                     raised |-> note_raised(date_str, dl, st.raised)],
                    outcome)

InitEra ==
  /\ IdleTC
  /\ IdleStr
  /\ IdleCalls
  /\ IdleReset
  /\ IdleClean
  /\ era_files = {}
  /\ era_progress = {}
  /\ era_pc = "idle"
  /\ downloaded_dates = {}
  /\ era_idx = 0
  /\ era_event = <<>>
  /\ era_ok = {}
  /\ era_raised = {}
  /\ era_needed = {}
  /\ era_ret = FALSE
  /\ era_runs = 0
  /\ IdlePl
  /\ IdleGrib
  /\ IdleHourly
  /\ IdleAttach
  /\ IdleDates

\* process_era5_data up to its loop
ProcessStart ==
  /\ era_pc = "idle"
  /\ era_runs < MaxRuns
  /\ era_runs' = era_runs + 1
  /\ downloaded_dates' = load_download_progress(era_progress)
  /\ era_idx' = 1
  /\ era_pc' = "process"
  /\ era_event' = <<>>
  /\ UNCHANGED <<era_files, era_progress, era_ok, era_raised, era_needed, era_ret>>
  /\ UNCHANGED notEra

\* one iteration of the loop over all_dates
ProcessDate ==
  \E outcome \in Outcomes :
    /\ era_pc = "process"
    /\ era_idx <= Len(all_dates)
    /\ LET date_str == all_dates[era_idx]
       IN IF date_str \in downloaded_dates
          THEN /\ era_event' = <<era_idx, "skipped">>
               /\ UNCHANGED <<era_files, era_progress, downloaded_dates, era_ok, era_raised>>
          ELSE LET dl == download_era5_rainfall(date_str, era_files, outcome)
               IN /\ era_files' = dl.files
                  /\ downloaded_dates' = mark(date_str, downloaded_dates, dl)
                  /\ era_progress' = downloaded_dates'
                  /\ era_ok' = note_ok(date_str, dl, era_ok)
                  /\ era_raised' = note_raised(date_str, dl, era_raised)
                  /\ era_event' = <<era_idx, IF dl.returned THEN "returned" ELSE "raised">>
    /\ era_idx' = era_idx + 1
    /\ UNCHANGED <<era_pc, era_needed, era_ret, era_runs>>
    /\ UNCHANGED notEra

\* the loop is over
ProcessDone ==
  /\ era_pc = "process"
  /\ era_idx > Len(all_dates)
  /\ era_pc' = "idle"
  /\ era_event' = <<>>
  /\ UNCHANGED <<era_files, era_progress, downloaded_dates, era_idx, era_ok, era_raised, era_needed, era_ret, era_runs>>
  /\ UNCHANGED notEra

\* ensure_era5_data_available(utc_dates_needed)
EnsureAvailable ==
  \E needed \in SUBSET Range(all_dates), outcome \in [Range(all_dates) -> Outcomes] :
    /\ era_pc = "idle"
    /\ era_runs < MaxRuns
    /\ era_runs' = era_runs + 1
    /\ LET utc_dates_needed == SelectSeq(all_dates, LAMBDA d : d \in needed)
           missing_dates == SelectSeq(utc_dates_needed, LAMBDA d : d \notin era_files)
           st == download_missing(
                   missing_dates,
                   [files |-> era_files,
                    downloaded |-> load_download_progress(era_progress),
                    progress |-> era_progress,
                    ok |-> era_ok,
                    raised |-> era_raised],
                   outcome)
       IN /\ era_files' = st.files
          /\ era_progress' = st.progress
          /\ era_ok' = st.ok
          /\ era_raised' = st.raised
    /\ era_needed' = needed
    /\ era_ret' = TRUE
    /\ era_event' = <<>>
    /\ UNCHANGED <<era_pc, downloaded_dates, era_idx>>
    /\ UNCHANGED notEra

NextEra == ProcessStart \/ ProcessDate \/ ProcessDone \/ EnsureAvailable

SpecEra == InitEra /\ [][NextEra]_vars

-----------------------------------------------------------------------------
(* The per-city main loops with a progress file:                           *)
(* calculateHourlySensorData.main, attachRoad2Grid.main,                   *)
(* convertSensorCSV2Parquet.process_city_folders and                       *)
(* convertDetectors2Parquet.main, with the processing function each calls. *)

Scripts == {"hourly", "road2grid", "csv2parquet", "detectors"}

\* city_folders in the order glob lists them
pl_city_folders == <<"augsburg", "basel">>

\* os.path.basename(city_folder), as the pieces of a text
city_name_of(city_folder) == <<city_folder>>

sensor_csv(city_folder) == <<city_folder, ".csv">>

\* what each processing function reads and writes in a city folder
script_inputs(script, city_folder) ==
  CASE script = "hourly" -> {sensor_csv(city_folder)}
    [] script = "csv2parquet" -> {sensor_csv(city_folder)}
    [] script = "detectors" -> {<<"detectors_public.csv">>}
    [] script = "road2grid" -> {<<"selected_roads.gpkg">>, <<"selected_network_4326.geojson">>}

script_outputs(script) ==
  CASE script = "hourly" -> {<<"hourly_readings.parquet">>}
    [] script = "csv2parquet" -> {<<"5min_readings.parquet">>}
    [] script = "detectors" -> {<<"detectors.parquet">>}
    [] script = "road2grid" -> {<<"roads.parquet">>, <<"selected_network.parquet">>}

\* the function returns True at once when its output is already there
checks_output(script) == script \in {"hourly", "detectors"}

\* the loop itself skips a city without its input, before calling the function
loop_checks_input(script) == script = "csv2parquet"

\* the input files a city folder can hold at the start
InputSets(city_folder) ==
  { {},
    {sensor_csv(city_folder)},
    {sensor_csv(city_folder), <<"detectors_public.csv">>,
     <<"selected_roads.gpkg">>, <<"selected_network_4326.geojson">>} }

\* reading, computing and writing succeeds, or raises inside the try block
ProcessOutcomes == {"ok", "error"}

\* the processing function of a script on one city folder
process_city(script, city_folder, files, outcome, run) ==
  LET have(names) == \A n \in names : path_join(city_folder, n) \in DOMAIN files
      outputs == {path_join(city_folder, n) : n \in script_outputs(script)}
  IN IF checks_output(script) /\ have(script_outputs(script))
     THEN [files |-> files, success |-> TRUE]
     ELSE IF ~have(script_inputs(script, city_folder))
     THEN [files |-> files, success |-> FALSE]
     ELSE IF outcome = "ok"
     THEN [files |-> [p \in DOMAIN files \cup outputs |->
                        IF p \in outputs THEN run ELSE files[p]],
           success |-> TRUE]
     ELSE [files |-> files, success |-> FALSE]

\* f.write(f"{city}\n") for every city of the set, into a file opened with 'w'
write_progress(processed) == {name \o <<"\n">> : name \in processed}

\* set(line.strip() for line in f.readlines()), the empty set without a file
read_progress(progress) ==
  IF progress.exists THEN {strip(line) : line \in progress.lines} ELSE {}

\* a skip test that finds nothing
never_processed(city_name, processed) == FALSE

\* if city_name in processed_cities: continue
already_processed(city_name, processed) == city_name \in processed

\* a loop that records the city whatever the function returned
record_always(city_name, processed, success) == processed \cup {city_name}

\* if success: processed_cities.add(city_name)
record(city_name, processed, success) ==
  IF success THEN processed \cup {city_name} ELSE processed

NoProgressFile == [exists |-> FALSE, lines |-> {}]

InitPl ==
  /\ IdleTC
  /\ IdleStr
  /\ IdleCalls
  /\ IdleReset
  /\ IdleClean
  /\ IdleEra
  /\ \E chosen \in [Range(pl_city_folders) -> UNION {InputSets(c) : c \in Range(pl_city_folders)} \cup {{}}] :
       /\ \A c \in Range(pl_city_folders) : chosen[c] \in InputSets(c)
       /\ pl_files = [p \in UNION {{path_join(c, n) : n \in chosen[c]} : c \in Range(pl_city_folders)} |-> 0]
  /\ pl_progress = [s \in Scripts |-> NoProgressFile]
  /\ pl_pc = "idle"
  /\ pl_script = "none"
  /\ processed_cities = {}
  /\ pl_idx = 0
  /\ pl_runs = 0
  /\ pl_loaded = {}
  /\ pl_succeeded = {}
  /\ pl_calls = {}
  /\ pl_ever = [s \in Scripts |-> {}]
  /\ pl_full = [s \in Scripts |-> FALSE]
  /\ pl_start = [files |-> pl_files, progress |-> pl_progress, after_full |-> FALSE]
  /\ IdleGrib
  /\ IdleHourly
  /\ IdleAttach
  /\ IdleDates

\* a script is started: it loads its progress file
RunStart ==
  \E script \in Scripts :
    /\ pl_pc = "idle"
    /\ pl_runs < MaxRuns
    /\ pl_runs' = pl_runs + 1
    /\ pl_script' = script
    /\ processed_cities' = read_progress(pl_progress[script])
    /\ pl_loaded' = processed_cities'
    /\ pl_idx' = 1
    /\ pl_pc' = "loop"
    /\ pl_succeeded' = {}
    /\ pl_calls' = {}
    /\ pl_start' = [files |-> pl_files, progress |-> pl_progress, after_full |-> pl_full[script]]
    /\ UNCHANGED <<pl_files, pl_progress, pl_ever, pl_full>>
    /\ UNCHANGED notPl

\* one iteration of the loop over city_folders
RunCity ==
  \E outcome \in ProcessOutcomes :
    /\ pl_pc = "loop"
    /\ pl_idx <= Len(pl_city_folders)
    /\ LET city_folder == pl_city_folders[pl_idx]
           city_name == city_name_of(city_folder)
           no_input == /\ loop_checks_input(pl_script)
                       /\ \E n \in script_inputs(pl_script, city_folder) :
                            path_join(city_folder, n) \notin DOMAIN pl_files
       IN IF already_processed(city_name, processed_cities) \/ no_input
          THEN UNCHANGED <<pl_files, pl_progress, processed_cities, pl_succeeded, pl_calls, pl_ever>>
          ELSE LET done == process_city(pl_script, city_folder, pl_files, outcome, pl_runs)
               IN /\ pl_files' = done.files
                  /\ pl_calls' = pl_calls \cup {city_name}
                  /\ pl_succeeded' = IF done.success THEN pl_succeeded \cup {city_name} ELSE pl_succeeded
                  /\ pl_ever' = IF done.success
                                THEN [pl_ever EXCEPT ![pl_script] = @ \cup {city_name}]
                                ELSE pl_ever
                  /\ processed_cities' = record(city_name, processed_cities, done.success)
                  /\ pl_progress' = IF done.success
                                    THEN [pl_progress EXCEPT ![pl_script] =
                                            [exists |-> TRUE, lines |-> write_progress(processed_cities')]]
                                    ELSE pl_progress
    /\ pl_idx' = pl_idx + 1
    /\ UNCHANGED <<pl_pc, pl_script, pl_runs, pl_loaded, pl_full, pl_start>>
    /\ UNCHANGED notPl

\* the loop is over and the script ends
RunEnd ==
  /\ pl_pc = "loop"
  /\ pl_idx > Len(pl_city_folders)
  /\ pl_pc' = "idle"
  /\ pl_full' = [pl_full EXCEPT ![pl_script] =
                   \A c \in Range(pl_city_folders) :
                     city_name_of(c) \in pl_succeeded \cup pl_loaded]
  /\ UNCHANGED <<pl_files, pl_progress, pl_script, processed_cities, pl_idx, pl_runs,
                 pl_loaded, pl_succeeded, pl_calls, pl_ever, pl_start>>
  /\ UNCHANGED notPl

NextPl == RunStart \/ RunCity \/ RunEnd

SpecPl == InitPl /\ [][NextPl]_vars

-----------------------------------------------------------------------------
(* util/processERA5CityData.py: ERA5CityProcessor._get_era5_data_for_time. *)
(* A GRIB file is missing, unreadable, or holds a sorted time coordinate   *)
(* and, for each time and grid cell, an array of `size` values.            *)

\* if hour_offset < 0 or hour_offset >= 12
OffsetLimit == 12

MissingFile == [state |-> "missing", times |-> <<>>, size |-> 0]
UnreadableFile == [state |-> "unreadable", times |-> <<>>, size |-> 0]
GribFile(times, size) == [state |-> "ok", times |-> times, size |-> size]

\* the shapes a day's file can have: forecasts started at 18:00 of the day
\* before, 06:00 and 18:00 with twelve hourly steps each; the same with the
\* 06:00 forecast absent; one time at 00:00 with the 24 hours of the day; and
\* one time per half day with a single value
GribLayouts(d) ==
  { GribFile(<<Day(d) - HM(6, 0), Day(d) + HM(6, 0), Day(d) + HM(18, 0)>>, OffsetLimit),
    GribFile(<<Day(d) - HM(6, 0), Day(d) + HM(18, 0)>>, OffsetLimit),
    GribFile(<<Day(d)>>, HoursPerDay),
    GribFile(<<Day(d), Day(d) + HM(12, 0)>>, 1) }

GribFiles(d) == GribLayouts(d) \cup {MissingFile, UnreadableFile}

\* return None
NoFrame == [frame |-> FALSE]

\* int(x): the fraction is dropped, towards zero
int_div(a, b) == IF a >= 0 THEN a \div b ELSE -((-a) \div b)

\* int(time_diff.total_seconds() / 3600)
hour_offset_of(utc_time, closest_time) ==
  int_div(utc_time - closest_time, MinutesPerHour)

\* the loop over era5_times_next: the variables after it
RECURSIVE scan_next(_, _, _)
scan_next(times, utc_time, st) ==
  IF times = <<>> THEN st
  ELSE LET t == Head(times)
       IN IF t > utc_time
          THEN LET hour_offset == hour_offset_of(utc_time, t)
               IN IF 0 <= hour_offset /\ hour_offset < OffsetLimit
                  THEN [closest_time |-> t, hour_offset |-> hour_offset, dataset |-> "next"]
                  ELSE scan_next(Tail(times), utc_time,
                                 [st EXCEPT !.closest_time = t, !.hour_offset = hour_offset])
          ELSE scan_next(Tail(times), utc_time, st)

\* the data frame built from the chosen dataset: an array is indexed with
\* hour_offset when its size exceeds it
data_frame(utc_time, file, next, st) ==
  LET ds == IF st.dataset = "next" THEN next ELSE file
  IN IF st.closest_time \notin Range(ds.times)
     THEN NoFrame
     ELSE [frame |-> TRUE,
           utc_time |-> utc_time,
           closest_time |-> st.closest_time,
           hour_offset |-> st.hour_offset,
           dataset |-> st.dataset,
           indexed |-> ds.size > st.hour_offset \/ file.size > st.hour_offset]

get_era5_data_for_time(utc_time, file, next) ==
  IF file.state # "ok" THEN NoFrame
  ELSE LET valid_times == SelectSeq(file.times, LAMBDA t : t <= utc_time)
       IN IF valid_times = <<>> THEN NoFrame
          ELSE LET closest_time == valid_times[Len(valid_times)]
                   hour_offset == hour_offset_of(utc_time, closest_time)
                   st == [closest_time |-> closest_time, hour_offset |-> hour_offset,
                          dataset |-> "day"]
               IN IF hour_offset >= OffsetLimit
                  THEN IF next.state = "missing" THEN NoFrame
                       ELSE IF next.state = "unreadable"
                       THEN data_frame(utc_time, file, next, st)
                       ELSE data_frame(utc_time, file, next,
                                       scan_next(next.times, utc_time, st))
                  ELSE data_frame(utc_time, file, next, st)

InitGrib ==
  /\ IdleTC
  /\ IdleStr
  /\ IdleCalls
  /\ IdleReset
  /\ IdleClean
  /\ IdleEra
  /\ IdlePl
  /\ gr_utc_time \in Moments
  /\ gr_file \in GribFiles(gr_utc_time \div MinutesPerDay)
  /\ gr_next \in GribFiles(gr_utc_time \div MinutesPerDay + 1)
  /\ gr_result = NoFrame
  /\ gr_pc = "start"
  /\ IdleHourly
  /\ IdleAttach
  /\ IdleDates

GetEra5DataForTime ==
  /\ gr_pc = "start"
  /\ gr_result' = get_era5_data_for_time(gr_utc_time, gr_file, gr_next)
  /\ gr_pc' = "returned"
  /\ UNCHANGED <<gr_utc_time, gr_file, gr_next>>
  /\ UNCHANGED notGrib

NextGrib == GetEra5DataForTime

SpecGrib == InitGrib /\ [][NextGrib]_vars

-----------------------------------------------------------------------------
(* util/calculateHourlySensorData.py: calculate_hourly_data.  Times are    *)
(* counted in seconds from 00:00 of day 0; a flow is the one-element       *)
(* sequence of its value, or the empty sequence NaN of a missing reading.  *)

\* the rows of the input frame
MaxRows == 2

SecondsPerHour == 3600
SecondsPerDay == HoursPerDay * SecondsPerHour

NaN == <<>>

\* day, interval (seconds after midnight), detector, city and flow of a row
SensorDays == {1, 2}
SensorIntervals == {0, 3300, 3600}
SensorDetids == {"K1D1", "K2D1"}
SensorCities == {"augsburg"}
SensorFlows == {NaN, <<60>>, <<84>>}

SensorRows ==
  [day : SensorDays, interval : SensorIntervals, detid : SensorDetids,
   city : SensorCities, flow : SensorFlows]

SensorFrames == UNION {[1..n -> SensorRows] : n \in 0..MaxRows}

\* sensor_df['day'] + pd.to_timedelta(sensor_df['interval'], unit='s')
datetime_of(row) == row.day * SecondsPerDay + row.interval

\* a grouping by the datetime itself
hour_unfloored(row) == datetime_of(row)

\* sensor_df['datetime'].dt.floor('h')
hour_of(row) == datetime_of(row) - (datetime_of(row) % SecondsPerHour)

\* the key of groupby(['hour', 'detid', 'city'])
group_key(row) == <<hour_of(row), row.detid, row.city>>

\* hour.strftime('%d/%m/%Y %H:%M:%S'): day, hour, minute, second
strftime_dmyhms(t) ==
  <<t \div SecondsPerDay,
    (t % SecondsPerDay) \div SecondsPerHour,
    (t % SecondsPerHour) \div MinutesPerHour,
    t % MinutesPerHour>>

\* group['flow'].sum(): the missing readings are skipped
RECURSIVE flow_sum_of(_)
flow_sum_of(group) ==
  IF group = <<>> THEN 0
  ELSE (IF Head(group).flow = NaN THEN 0 ELSE Head(group).flow[1]) + flow_sum_of(Tail(group))

\* a / b as the fraction it is
Fraction(a, b) == <<a, b>>

\* the row appended for one group
hourly_row(key, group) ==
  LET samples_count == Len(group)
      flow_sum == flow_sum_of(group)
  IN [datetime |-> strftime_dmyhms(key[1]),
      detid |-> key[2],
      flow_sum |-> flow_sum,
      flow_mean_5min |-> IF samples_count > 0 THEN Fraction(flow_sum, samples_count) ELSE Fraction(0, 1),
      city |-> key[3]]

\* the groups in the order of their keys
RECURSIVE sorted_keys(_)
sorted_keys(keys) ==
  IF keys = {} THEN <<>>
  ELSE LET k == CHOOSE x \in keys :
                  \A y \in keys :
                    \/ x[1] < y[1]
                    \/ (x[1] = y[1] /\ (x[2] = y[2] \/ x[2] = "K1D1"))
       IN <<k>> \o sorted_keys(keys \ {k})

calculate_hourly_data(df) ==
  LET keys == sorted_keys({group_key(df[i]) : i \in 1..Len(df)})
  IN [g \in 1..Len(keys) |->
        hourly_row(keys[g], SelectSeq(df, LAMBDA row : group_key(row) = keys[g]))]

InitHourly ==
  /\ IdleTC
  /\ IdleStr
  /\ IdleCalls
  /\ IdleReset
  /\ IdleClean
  /\ IdleEra
  /\ IdlePl
  /\ IdleGrib
  /\ sensor_df \in SensorFrames
  /\ hourly_df = <<>>
  /\ hd_pc = "start"
  /\ IdleAttach
  /\ IdleDates

CalculateHourlyData ==
  /\ hd_pc = "start"
  /\ hourly_df' = calculate_hourly_data(sensor_df)
  /\ hd_pc' = "returned"
  /\ UNCHANGED sensor_df
  /\ UNCHANGED notHourly

NextHourly == CalculateHourlyData

SpecHourly == InitHourly /\ [][NextHourly]_vars

-----------------------------------------------------------------------------
(* util/attachSensorOnRoads.py: the assignment of detectors to roads.      *)
(* Roads and detectors lie on one axis; a detector is the pair of its      *)
(* detid and its position.                                                 *)

\* the detectors of a city
MaxDetectors == 2

\* roads_gdf['detid'] = -1
NoDetector == -1

\* the position of each road, by road_id
road_positions == <<0, 10, 20>>

DetectorPositions == {0, 4, 5, 9, 10, 16, 20, 24}

\* the rows of detectors_public.csv: distinct detids, any positions
DetectorFrames ==
  UNION { { [i \in 1..n |-> [detid |-> i, position |-> pos[i]]] :
              pos \in [1..n -> DetectorPositions] } : n \in 1..MaxDetectors }

\* roads_gdf.distance(detector.geometry)
distance(road_id, position) ==
  IF road_positions[road_id] >= position
  THEN road_positions[road_id] - position
  ELSE position - road_positions[road_id]

\* .idxmin(): the first road at the smallest distance
idxmin(position) ==
  CHOOSE r \in DOMAIN road_positions :
    /\ \A q \in DOMAIN road_positions : distance(r, position) <= distance(q, position)
    /\ \A q \in DOMAIN road_positions :
         distance(q, position) = distance(r, position) => r <= q

InitAttach ==
  /\ IdleTC
  /\ IdleStr
  /\ IdleCalls
  /\ IdleReset
  /\ IdleClean
  /\ IdleEra
  /\ IdlePl
  /\ IdleGrib
  /\ IdleHourly
  /\ detectors_gdf \in DetectorFrames
  /\ roads_detid = [r \in DOMAIN road_positions |-> NoDetector]
  /\ at_idx = 1
  /\ at_pc = "loop"
  /\ IdleDates

\* one iteration of the loop over the detectors
AttachDetector ==
  /\ at_pc = "loop"
  /\ at_idx <= Len(detectors_gdf)
  /\ LET detector == detectors_gdf[at_idx]
         nearest_road == idxmin(detector.position)
     IN roads_detid' = [roads_detid EXCEPT ![nearest_road] = detector.detid]
  /\ at_idx' = at_idx + 1
  /\ UNCHANGED <<detectors_gdf, at_pc>>
  /\ UNCHANGED notAttach

\* the loop is over and the roads are saved
AttachSave ==
  /\ at_pc = "loop"
  /\ at_idx > Len(detectors_gdf)
  /\ at_pc' = "saved"
  /\ UNCHANGED <<detectors_gdf, roads_detid, at_idx>>
  /\ UNCHANGED notAttach

NextAttach == AttachDetector \/ AttachSave

SpecAttach == InitAttach /\ [][NextAttach]_vars

-----------------------------------------------------------------------------
(* util/processERA5CityData.py: process_all_dates and                      *)
(* get_era5_data_for_local_date.  A date is its day number.                *)

\* get_target_dates(): the dates of the city's rainfall data
target_dates == [i \in 1..MaxDay |-> i]

\* the UTC dates the local hours of the target dates can fall on
GribDays == 0..(MaxDay + 1)

\* pd.date_range(start="<date> 00:00", end="<date> 23:00", freq='H')
local_hours_of(local_date) ==
  [i \in 1..HoursPerDay |-> Day(local_date) + HM(i - 1, 0)]

\* the file era5_rainfall_<date>.grib as the CDS request delivers it
grib_file_of(d, grib) ==
  IF d \in grib
  THEN GribFile(<<Day(d) - HM(6, 0), Day(d) + HM(6, 0), Day(d) + HM(18, 0)>>, OffsetLimit)
  ELSE MissingFile

\* get_era5_data_for_local_date: what it leaves behind, or that it raised
get_era5_data_for_local_date(local_date, zone, st, downloads_ok) ==
  IF local_date \in st.processed THEN st
  ELSE LET date_hours == local_hours_of(local_date)
           conversion_result == [i \in 1..Len(date_hours) |-> local_to_utc(date_hours[i], zone)]
       IN IF \E i \in 1..Len(date_hours) : conversion_result[i].status = "raised"
          THEN [st EXCEPT !.raised = @ \cup {local_date}]
          ELSE LET utc_times == [i \in 1..Len(date_hours) |-> conversion_result[i].converted]
                   utc_dates_needed == {utc_times[i] \div MinutesPerDay : i \in 1..Len(utc_times)}
                   grib == IF downloads_ok THEN st.grib \cup utc_dates_needed ELSE st.grib
                   all_hourly_data ==
                     {i \in 1..Len(utc_times) :
                        get_era5_data_for_time(
                          utc_times[i],
                          grib_file_of(utc_times[i] \div MinutesPerDay, grib),
                          grib_file_of(utc_times[i] \div MinutesPerDay + 1, grib)).frame}
               IN IF all_hourly_data # {}
                  THEN [st EXCEPT !.grib = grib,
                                  !.saved = @ \cup {local_date},
                                  !.processed = @ \cup {local_date}]
                  ELSE [st EXCEPT !.grib = grib]

\* the ERA5 directory when the run starts: every file there, none, or one missing
GribDirectories == {GribDays, {}} \cup {GribDays \ {d} : d \in GribDays}

InitDates ==
  /\ IdleTC
  /\ IdleStr
  /\ IdleCalls
  /\ IdleReset
  /\ IdleClean
  /\ IdleEra
  /\ IdlePl
  /\ IdleGrib
  /\ IdleHourly
  /\ IdleAttach
  /\ dp_timezone \in KnownZones
  /\ dp_grib \in GribDirectories
  /\ dp_grib_at_start = dp_grib
  /\ processed_dates = {}
  /\ dp_saved = {}
  /\ dp_raised = {}
  /\ dp_idx = 1
  /\ dp_pc = "loop"

\* one iteration of the loop over target_dates, the except branch included
ProcessLocalDate ==
  \E downloads_ok \in BOOLEAN :
    /\ dp_pc = "loop"
    /\ dp_idx <= Len(target_dates)
    /\ LET st == get_era5_data_for_local_date(
                   target_dates[dp_idx], dp_timezone,
                   [grib |-> dp_grib, processed |-> processed_dates,
                    saved |-> dp_saved, raised |-> dp_raised],
                   downloads_ok)
       IN /\ dp_grib' = st.grib
          /\ processed_dates' = st.processed
          /\ dp_saved' = st.saved
          /\ dp_raised' = st.raised
    /\ dp_idx' = dp_idx + 1
    /\ UNCHANGED <<dp_timezone, dp_grib_at_start, dp_pc>>
    /\ UNCHANGED notDates

\* every date has been gone through
ProcessAllDone ==
  /\ dp_pc = "loop"
  /\ dp_idx > Len(target_dates)
  /\ dp_pc' = "done"
  /\ UNCHANGED <<dp_timezone, dp_grib, dp_grib_at_start, processed_dates, dp_saved, dp_raised, dp_idx>>
  /\ UNCHANGED notDates

NextDates == ProcessLocalDate \/ ProcessAllDone

SpecDates == InitDates /\ [][NextDates]_vars

----------------------------------------------------------------------------
(* Facts about a zone, read off its transition table without going through *)
(* localize or date_range; the properties below are stated with them.      *)

Abs(x) == IF x >= 0 THEN x ELSE 0 - x

\* the indices of the real transitions of a zone (the first entry is the sentinel)
TransitionsOf(zone) == 2..Len(ZoneDB[zone].utc_transition_times)

\* the tzinfo in force in the zone at UTC instant utc
InForceAt(zone, utc) ==
  LET tz == ZoneDB[zone]
      i == CHOOSE j \in DOMAIN tz.utc_transition_times :
             /\ tz.utc_transition_times[j] <= utc
             /\ \A k \in DOMAIN tz.utc_transition_times :
                  tz.utc_transition_times[k] <= utc => k <= j
  IN tz.transition_info[i]

\* wall-clock readings just before and just after transition i
WallBefore(zone, i) ==
  ZoneDB[zone].utc_transition_times[i] + ZoneDB[zone].transition_info[i - 1].utcoffset
WallAfter(zone, i) ==
  ZoneDB[zone].utc_transition_times[i] + ZoneDB[zone].transition_info[i].utcoffset

IsForward(zone, i) == WallAfter(zone, i) > WallBefore(zone, i)
IsBackward(zone, i) == WallAfter(zone, i) < WallBefore(zone, i)

\* t is a wall-clock time the zone skips / shows twice
InGap(zone, t) ==
  \E i \in TransitionsOf(zone) : WallBefore(zone, i) <= t /\ t < WallAfter(zone, i)
InOverlap(zone, t) ==
  \E i \in TransitionsOf(zone) : WallAfter(zone, i) <= t /\ t < WallBefore(zone, i)

\* t is within one hour of a DST boundary of the zone
NearBoundary(zone, t) ==
  \E i \in TransitionsOf(zone) :
    \/ Abs(t - WallBefore(zone, i)) <= MinutesPerHour
    \/ Abs(t - WallAfter(zone, i)) <= MinutesPerHour

\* the zone has no DST rules
NoDstRules(zone) ==
  /\ TransitionsOf(zone) = {}
  /\ \A i \in DOMAIN ZoneDB[zone].transition_info : ZoneDB[zone].transition_info[i].dst = 0

DateOf(t) == t \div MinutesPerDay

Min(a, b) == IF a <= b THEN a ELSE b

\* the UTC interval [PeriodStart, PeriodEnd) during which transition_info[i]
\* of the zone is in force; the last period runs to the end of the model's time
PeriodStart(zone, i) == ZoneDB[zone].utc_transition_times[i]
PeriodEnd(zone, i) ==
  IF i < Len(ZoneDB[zone].utc_transition_times)
    THEN ZoneDB[zone].utc_transition_times[i + 1]
    ELSE Day(MaxDay + 3)

\* the minutes of period i whose wall-clock date in the zone is date
PeriodMinutesOn(zone, i, date) ==
  LET off == ZoneDB[zone].transition_info[i].utcoffset IN
  Max(0, Min(PeriodEnd(zone, i) + off, Day(date + 1)) - Max(PeriodStart(zone, i) + off, Day(date)))

RECURSIVE SumMinutesOn(_, _, _)
SumMinutesOn(zone, i, date) ==
  IF i = 0 THEN 0
  ELSE PeriodMinutesOn(zone, i, date) + SumMinutesOn(zone, i - 1, date)

\* the number of minutes of absolute time whose wall-clock date in the zone is date
LocalDayMinutes(zone, date) ==
  SumMinutesOn(zone, Len(ZoneDB[zone].utc_transition_times), date)

\* the number of hourly instants from local 00:00 to local 23:59:59.999999
HourlyInstants(zone, date) == ((LocalDayMinutes(zone, date) - 1) \div MinutesPerHour) + 1

\* the transitions of the zone that fall inside the UTC calendar day of utc
TransitionsInUtcDay(zone, utc) ==
  { i \in TransitionsOf(zone) : DateOf(ZoneDB[zone].utc_transition_times[i]) = DateOf(utc) }

CalledL2U == op = "local_to_utc" /\ pc \in {"done", "back"} /\ timezone \in KnownZones
CalledU2L == op = "utc_to_local" /\ pc = "done" /\ timezone \in KnownZones

\* the UTC instants whose wall-clock reading in the zone is t
UtcInstantsOf(zone, t) ==
  { t - ZoneDB[zone].transition_info[i].utcoffset :
      i \in { j \in DOMAIN ZoneDB[zone].transition_info :
                LET u == t - ZoneDB[zone].transition_info[j].utcoffset
                IN PeriodStart(zone, j) <= u /\ u < PeriodEnd(zone, j) } }

----------------------------------------------------------------------------
(* Properties *)

\* C1: for every zone and every local moment t that is not within one hour of
\* a DST boundary of the zone, local_to_utc(t, Z) returns, and utc_to_local of
\* the utc_time it returned gives back a local_time equal to t.
C1_RoundTrip ==
  (CalledL2U /\ ~NearBoundary(timezone, time_in)) =>
     /\ result.status = "returned"
     /\ pc = "back" => (back.status = "returned" /\ back.converted = time_in)

C3_UtcDayFlagged ==
  (CalledU2L /\ result.status = "returned") =>
     LET inDay == TransitionsInUtcDay(timezone, time_in) IN
       /\ (\E i \in inDay : IsForward(timezone, i)) => result.dst_transition = DstStarts
       /\ (\E i \in inDay : IsBackward(timezone, i)) => result.dst_transition = DstEnds
       /\ result.dst_transition = None => inDay = {}

\* C4: in both operations a day-hour count outside {23, 24, 25} makes the call
\* fail with an error; it never returns a result for such a day.
C4_AnomalyIsAnError ==
  LET normal == {HoursPerDay - 1, HoursPerDay, HoursPerDay + 1} IN
    /\ (CalledL2U /\ HourlyInstants(timezone, DateOf(time_in)) \notin normal)
          => result.status = "raised"
    /\ (CalledU2L /\ local_hours(ZoneDB[timezone], time_in) \notin normal)
          => result.status = "raised"

\* C5: local_to_utc does not fail on a repeated or a skipped local wall-clock
\* time: it resolves the moment and returns a result.
C5_ResolvesAmbiguous ==
  (CalledL2U /\ (InGap(timezone, time_in) \/ InOverlap(timezone, time_in)))
     => result.status = "returned"

\* C6: for a local moment inside the skipped hour of a spring-forward
\* transition, every outcome of local_to_utc is an error or a result tagged
\* spring-forward; an untagged value is never returned.
C6_SkippedHourFlagged ==
  (CalledL2U /\ InGap(timezone, time_in)) =>
     \/ result.status = "raised"
     \/ (result.status = "returned" /\ result.dst_transition = DstStarts)

C6_Witness ==
  /\ CalledL2U
  /\ timezone = "Europe/Rome"
  /\ time_in = Day(2) + HM(2, 30)
  /\ InGap(timezone, time_in)
  /\ result = Raised("NonExistentTimeError")

\* C7: in both directions is_dst is true exactly when the offset in force in
\* the zone at the converted instant has a non-zero DST part, so converting
\* back the instant local_to_utc returned reports the same is_dst.
C7_IsDst ==
  /\ (CalledL2U /\ result.status = "returned") =>
        result.is_dst = (InForceAt(timezone, result.converted).dst # 0)
  /\ (CalledU2L /\ result.status = "returned") =>
        result.is_dst = (InForceAt(timezone, time_in).dst # 0)
  /\ (CalledL2U /\ pc = "back" /\ back.status = "returned") =>
        back.is_dst = result.is_dst

C7_Witness ==
  /\ CalledL2U
  /\ pc = "back"
  /\ timezone = "Europe/Rome"
  /\ back.status = "returned"
  /\ result.is_dst
  /\ back.is_dst

\* C8: for a zone without DST rules every call of either operation returns
\* is_dst False and no dst_transition tag.
C8_NoDstZone ==
  (timezone \in KnownZones /\ NoDstRules(timezone)) =>
     /\ pc # "start" =>
          /\ result.status = "returned"
          /\ ~result.is_dst
          /\ result.dst_transition = None
     /\ pc = "back" =>
          /\ back.status = "returned"
          /\ ~back.is_dst
          /\ back.dst_transition = None

C8_Witness ==
  /\ CalledU2L
  /\ timezone = "Asia/Taipei"
  /\ time_in = Day(5) + HM(1, 30)
  /\ result.status = "returned"
  /\ ~result.is_dst
  /\ result.dst_transition = None

\* C9: the utc_time local_to_utc returns is a naive moment equal to the input
\* local moment minus the UTC offset in force in the zone at that moment.
C9_UtcIsLocalMinusOffset ==
  (CalledL2U /\ result.status = "returned") =>
     /\ result.converted \in UtcInstantsOf(timezone, time_in)
     /\ result.converted = time_in - InForceAt(timezone, result.converted).utcoffset

C9_Witness ==
  /\ CalledL2U
  /\ timezone = "Europe/Rome"
  /\ time_in = Day(3) + HM(12, 0)
  /\ result.status = "returned"
  /\ result.converted = Day(3) + HM(10, 0)

\* C10: an unknown timezone name makes either operation raise the
\* unknown-timezone error; the call yields no result and nothing follows it.
C10_UnknownTimezone ==
  (timezone \notin KnownZones /\ pc # "start") =>
     /\ pc = "done"
     /\ result.status = "raised"
     /\ result.error = "UnknownTimeZoneError"
     /\ back = NoResult

C10_Witness ==
  /\ timezone = "Mars/Colony"
  /\ op = "local_to_utc"
  /\ pc = "done"
  /\ result = Raised("UnknownTimeZoneError")

\* C11: a time string that is not in the format "YYYY-MM-DD HH:MM" makes
\* either operation fail with a parse error; no conversion result is returned.
C11_MalformedStringRaises ==
  (pc = "done" /\ ~Recognized(time_str)) =>
     (result.status = "raised" /\ result.error = "DateParseError")

SameCall(a, b) == a.op = b.op /\ a.time = b.time /\ a.zone = b.zone

\* C12: two calls of the same operation with the same moment and timezone
\* return the same result, or the same error, whatever calls were made in
\* between.
C12_Deterministic ==
  \A i, j \in DOMAIN call_log :
    SameCall(call_log[i], call_log[j]) => call_log[i].result = call_log[j].result

C12_Witness ==
  /\ Len(call_log) = 3
  /\ SameCall(call_log[1], call_log[3])
  /\ call_log[2].zone # call_log[1].zone
  /\ call_log[1].result.status = "returned"
  /\ call_log[1].result = call_log[3].result

\* C13: the operations write no state shared between calls: under any
\* interleaving of concurrent calls on one converter each call ends with the
\* result it gives when run alone, and the converter's attributes stay as
\* __init__ left them.
C13_Isolated ==
  /\ self_attrs = {}
  /\ \A t \in Threads :
       frames[t].pc = "done" =>
         frames[t].result = CallAlone(frames[t].op, frames[t].time, frames[t].zone)

C13_Witness ==
  \E t, u \in Threads :
    /\ t # u
    /\ frames[t].pc = "done"
    /\ frames[t].result.status = "returned"
    /\ frames[u].pc \in {"convert", "done"}
    /\ frames[u].zone # frames[t].zone
    /\ frames[t].result = CallAlone(frames[t].op, frames[t].time, frames[t].zone)

(* The answers that confirm: a single y or Y with nothing but whitespace   *)
(* around it.                                                              *)
IsYes(answer) ==
  \E i \in 1..Len(answer) :
    /\ answer[i] \in {"y", "Y"}
    /\ \A j \in 1..Len(answer) : j # i => answer[j] \in Whitespace

\* C14 as stated: reset_progress removes a file only when dry_run is False
\* and the answer typed is exactly y; with dry_run True or any other answer
\* no file is deleted; it returns the number of files it collected.
C14_ExactlyY ==
  rp_pc = "returned" =>
    /\ (fs_files # fs_before => ~rp_args.dry_run /\ rp_answer = <<"y">>)
    /\ rp_ret = Len(files_to_delete)

\* C14 amended: reset_progress removes a file only when dry_run is False and
\* the answer typed, with surrounding whitespace dropped and in lower case,
\* is y; with dry_run True or any other answer the files are those present
\* at the call; it returns the number of files it collected.
C14_NormalisedY ==
  rp_pc = "returned" =>
    /\ (fs_files # fs_before => ~rp_args.dry_run /\ IsYes(rp_answer))
    /\ (rp_args.dry_run \/ ~IsYes(rp_answer) => fs_files = fs_before)
    /\ rp_ret = Len(files_to_delete)
    /\ rp_ret = Cardinality(Range(collect(fs_before, rp_args)))

C14_Witness ==
  /\ rp_pc = "returned"
  /\ ~rp_args.dry_run
  /\ rp_answer = <<"Y">>
  /\ fs_files # fs_before
  /\ rp_ret > 0

\* C15: after reset_progress with delete_progress_files=True, not a dry run
\* and confirmed, none of the progress files the pipeline scripts write under
\* the data root exists.
C15_NoProgressFileLeft ==
  ( /\ rp_pc = "returned"
    /\ rp_args.delete_progress_files
    /\ ~rp_args.dry_run
    /\ (files_to_delete # <<>> => IsYes(rp_answer)) )
  => \A n \in PipelineProgressFiles : path_join(DATA_ROOT, n) \notin fs_files

C17_ReturnedTrueMeansAvailable ==
  era_ret => era_needed \subseteq era_files

\* C20: in process_era5_data a date is in downloaded_dates and in
\* download_progress.json only if a download call for it has returned; a date
\* whose latest download raised is in neither, so the next run does not skip
\* it; and after an iteration whose download raised the loop is at the
\* following date.
C20_RecordedOnlyAfterDownload ==
  /\ era_progress \subseteq era_ok
  /\ (era_pc = "process" => downloaded_dates \subseteq era_ok)
  /\ era_raised \cap era_progress = {}
  /\ (era_pc = "process" => era_raised \cap downloaded_dates = {})
  /\ (era_event # <<>> /\ era_event[2] = "raised" =>
        /\ era_pc = "process"
        /\ era_idx = era_event[1] + 1
        /\ all_dates[era_event[1]] \notin era_progress)

\* in a second run the loop stands at a date that failed in the first, after
\* which a later date was recorded
C20_Witness ==
  /\ era_runs = MaxRuns
  /\ era_pc = "process"
  /\ era_idx = 1
  /\ all_dates[1] \in era_raised
  /\ all_dates[2] \in era_progress
  /\ all_dates[1] \notin downloaded_dates

(* The city names a progress file holds: its lines without the newline.    *)
NamesIn(progress) == {SubSeq(line, 1, Len(line) - 1) : line \in progress.lines}

C18_OnlyAfterSuccess ==
  /\ \A s \in Scripts : NamesIn(pl_progress[s]) \subseteq pl_ever[s]
  /\ pl_pc = "loop" =>
       /\ pl_loaded \subseteq processed_cities
       /\ processed_cities \subseteq pl_loaded \cup pl_succeeded
       /\ NamesIn(pl_progress[pl_script]) \subseteq pl_loaded \cup pl_succeeded

C18_Grows ==
  \A s \in Scripts : NamesIn(pl_progress[s]) \subseteq NamesIn(pl_progress'[s])

\* C18: in the per-city loops a city name is in processed_cities and in the
\* progress file only if it was loaded from the file at the start of the run
\* or its processing function has returned success in this run, the names
\* loaded stay in the set, and no step removes a name from a progress file.
C18_ProgressOnlyGrows == []C18_OnlyAfterSuccess /\ [][C18_Grows]_vars

\* a second run of a script records a city that failed in the first
C18_Witness ==
  /\ pl_pc = "loop"
  /\ pl_loaded # {}
  /\ pl_succeeded # {}
  /\ pl_succeeded \cap pl_loaded = {}
  /\ NamesIn(pl_progress[pl_script]) = pl_loaded \cup pl_succeeded
  /\ \E c \in Range(pl_city_folders) :
       city_name_of(c) \in pl_calls \ pl_succeeded \/ city_name_of(c) \in pl_loaded

\* C19: a run of calculateHourlySensorData.main that follows a run in which
\* every city succeeded calls process_city_sensor_data for no city and leaves
\* the names in hourly_processing_progress.txt and every
\* hourly_readings.parquet as they were when it started.
C19_RerunChangesNothing ==
  (pl_script = "hourly" /\ pl_start.after_full) =>
    /\ pl_calls = {}
    /\ NamesIn(pl_progress["hourly"]) = NamesIn(pl_start.progress["hourly"])
    /\ \A c \in Range(pl_city_folders) :
         LET out == path_join(c, <<"hourly_readings.parquet">>)
         IN /\ out \in DOMAIN pl_files <=> out \in DOMAIN pl_start.files
            /\ out \in DOMAIN pl_files => pl_files[out] = pl_start.files[out]

C19_Witness ==
  /\ pl_script = "hourly"
  /\ pl_start.after_full
  /\ pl_pc = "loop"
  /\ pl_idx > Len(pl_city_folders)
  /\ \A c \in Range(pl_city_folders) :
       /\ path_join(c, <<"hourly_readings.parquet">>) \in DOMAIN pl_files
       /\ city_name_of(c) \in NamesIn(pl_progress["hourly"])

\* C25: local_to_utc returns a result for every local moment that exists
\* exactly once in the zone, whichever other wall-clock times of the same date
\* are skipped or repeated.
C25_ReturnsForEveryUniqueMoment ==
  (CalledL2U /\ Cardinality(UtcInstantsOf(timezone, time_in)) = 1)
     => result.status = "returned"

\* C21: whenever _get_era5_data_for_time returns a data frame, the hour_offset
\* with which an array was indexed lies in 0..11, and closest_time is a time
\* coordinate not later than the target UTC time.
C21_OffsetInRange ==
  (gr_pc = "returned" /\ gr_result.frame) =>
    /\ gr_result.indexed => (0 <= gr_result.hour_offset /\ gr_result.hour_offset <= 11)
    /\ gr_result.closest_time <= gr_utc_time
    /\ gr_result.closest_time \in Range(gr_file.times) \cup Range(gr_next.times)

(* The flow of a set of input rows, and of the output rows.                *)
RECURSIVE FlowOver(_)
FlowOver(S) ==
  IF S = {} THEN 0
  ELSE LET i == CHOOSE j \in S : TRUE
       IN (IF sensor_df[i].flow = NaN THEN 0 ELSE sensor_df[i].flow[1]) + FlowOver(S \ {i})

RECURSIVE FlowSumOfOutput(_)
FlowSumOfOutput(n) == IF n = 0 THEN 0 ELSE hourly_df[n].flow_sum + FlowSumOfOutput(n - 1)

\* the hour a row falls in: its day and the hour of its interval
HourKey(i) ==
  <<sensor_df[i].day, sensor_df[i].interval \div SecondsPerHour,
    sensor_df[i].detid, sensor_df[i].city>>

OutputKey(g) ==
  <<hourly_df[g].datetime[1], hourly_df[g].datetime[2], hourly_df[g].detid, hourly_df[g].city>>

C23_OneToOne ==
  at_pc = "saved" =>
    /\ \A i \in 1..Len(detectors_gdf) :
         Cardinality({r \in DOMAIN roads_detid : roads_detid[r] = detectors_gdf[i].detid}) = 1
    /\ \A r \in DOMAIN roads_detid :
         \/ roads_detid[r] = NoDetector
         \/ \E i \in 1..Len(detectors_gdf) : roads_detid[r] = detectors_gdf[i].detid

\* C24: with the GRIB files of all dates present, once process_all_dates has
\* gone through its dates, every target date that is a DST transition day of
\* the city's timezone has had all its local hours converted without raising
\* and is recorded as processed.
C24_TransitionDayProcessed ==
  (dp_pc = "done" /\ dp_grib_at_start = GribDays) =>
    \A i \in 1..Len(target_dates) :
      HourlyInstants(dp_timezone, target_dates[i]) # HoursPerDay =>
        /\ target_dates[i] \notin dp_raised
        /\ target_dates[i] \in processed_dates

====
